---------------------------- MODULE Spec2Model ----------------------------
(***************************************************************************)
(* PromptForge (src/app.py): a Streamlit page that resolves a list of      *)
(* Gemini models, wraps the user's task in a fixed instruction template    *)
(* and sends it to the generation endpoint.                                *)
(*                                                                         *)
(* Streamlit runs the script top to bottom on page load and again after    *)
(* every widget interaction.  One run is modelled as the steps             *)
(*   load_key -> models -> select -> main -> idle                          *)
(* and a widget interaction in "idle" starts the next run.  Strings are    *)
(* TLA+ strings, handled character by character (Len, SubSeq, \o).         *)
(* Emoji of the user-facing messages are left out of the message texts.    *)
(***************************************************************************)
EXTENDS Integers, Sequences, FiniteSets, TLC

VARIABLES
    secrets,        \* st.secrets: a function from secret names to values
    key_input,      \* widget "Enter Gemini API Key"
    user_input,     \* widget "What do you want to achieve?"
    audience,       \* widget "Target Audience / User"
    format_pref,    \* widget "Preferred Format"
    creativity,     \* widget "Creativity (Temperature)", in hundredths
    detail_level,   \* widget "Prompt Detail Level"
    generate_btn,   \* widget "Forge Masterprompt": TRUE in the run a click started
    api_key,        \* script variable api_key
    model_options,  \* script variable model_options
    selected_model, \* script variable selected_model
    listing,        \* what configure / list_models did in lines 44-56, kept
                    \* until the selector of line 59 is drawn
    outcome,        \* what the submit handler met in this run
    shown,          \* the st.* elements this run has put on the page, in order
    calls,          \* the SDK calls this run has made, in order
    pc              \* position of the script

vars == <<secrets, key_input, user_input, audience, format_pref, creativity,
          detail_level, generate_btn, api_key, model_options,
          selected_model, listing, outcome, shown, calls, pc>>

widgets == <<key_input, user_input, audience, format_pref, creativity,
             detail_level>>

-----------------------------------------------------------------------------
(* Bounds of the model *)

\* longest catalog the listing endpoint returns
MaxCatalog == 2

-----------------------------------------------------------------------------
(* Python string and list operations used by the script *)

\* the elements of a sequence
Range(seq) == {seq[i] : i \in 1..Len(seq)}

\* Python: t in s, for strings
Contains(s, t) ==
    \/ Len(t) = 0
    \/ \E i \in 1..(Len(s) - Len(t) + 1) : SubSeq(s, i, i + Len(t) - 1) = t

\* Python: s.replace(old, new): every non-overlapping occurrence, left to right
RECURSIVE Replace(_, _, _)
Replace(s, old, new) ==
    IF Len(s) < Len(old) THEN s
    ELSE IF SubSeq(s, 1, Len(old)) = old
         THEN new \o Replace(SubSeq(s, Len(old) + 1, Len(s)), old, new)
         ELSE SubSeq(s, 1, 1) \o Replace(SubSeq(s, 2, Len(s)), old, new)

\* Python: bool(s) for a string
Truthy(s) == s # ""

-----------------------------------------------------------------------------
(* Sidebar: the credential and the model catalog (lines 23-59) *)

\* st.secrets without the key, and with it (a configured value may be empty)
NoSecrets == [n \in {} |-> ""]
SecretStores ==
    {NoSecrets, [GOOGLE_API_KEY |-> "AIza-secret"], [GOOGLE_API_KEY |-> ""]}

\* what the user may type into the key field
KeyInputs == {"", "AIza-typed"}

\* line 38
safe_models == <<"gemini-1.5-flash", "gemini-1.5-pro", "gemini-2.0-flash-exp">>

\* entries the listing endpoint may return: a name and its supported methods
CatalogEntries ==
    { [name |-> "models/gemini-1.5-pro",
       supported_generation_methods |-> {"generateContent", "countTokens"}],
      [name |-> "models/gemini-exp-1206",
       supported_generation_methods |-> {"generateContent"}],
      [name |-> "models/embedding-001",
       supported_generation_methods |-> {"embedContent"}],
      [name |-> "models/tuned-models/x1",
       supported_generation_methods |-> {"generateContent"}] }

\* the listings of at most MaxCatalog entries, repetitions included
Catalogs == UNION {[1..n -> CatalogEntries] : n \in 0..MaxCatalog}

\* line 47: the names of the entries that support generateContent, with
\* "models/" replaced by the empty string
RECURSIVE AllModels(_)
AllModels(entries) ==
    IF entries = <<>> THEN <<>>
    ELSE (IF "generateContent" \in Head(entries).supported_generation_methods
          THEN <<Replace(Head(entries).name, "models/", "")>>
          ELSE <<>>)
         \o AllModels(Tail(entries))

\* line 50: the fetched names that are not safe models
RECURSIVE OtherModels(_)
OtherModels(all_models) ==
    IF all_models = <<>> THEN <<>>
    ELSE (IF Head(all_models) \notin Range(safe_models)
          THEN <<Head(all_models)>>
          ELSE <<>>)
         \o OtherModels(Tail(all_models))

\* what genai.configure and genai.list_models may do in one run: configure
\* raises; the listing raises after yielding some entries; the listing ends
NotListed == [status |-> "not_called", yielded |-> <<>>]
ListOutcomes ==
    {[status |-> "configure_failed", yielded |-> <<>>]}
    \cup {[status |-> "raised", yielded |-> c] :
             c \in {d \in Catalogs : Len(d) < MaxCatalog}}
    \cup {[status |-> "ok", yielded |-> c] : c \in Catalogs}

\* ModelOptions with the entries fetched before a failure kept
ModelOptionsKeepPartial(key, o) ==
    IF ~Truthy(key) THEN safe_models
    ELSE safe_models \o OtherModels(AllModels(o.yielded))

\* lines 40-56: model_options for a credential and a listing outcome.  Line 53
\* is reached only when the comprehension of line 47 has consumed the whole
\* listing; an exception before it leaves the default of line 40 in place.
ModelOptions(key, o) ==
    IF ~Truthy(key) THEN safe_models
    ELSE IF o.status = "ok"
         THEN safe_models \o OtherModels(AllModels(o.yielded))
         ELSE safe_models

\* the SDK calls of lines 45-47 for a listing outcome
ListingCalls(key, o) ==
    <<[fn |-> "configure", api_key |-> key]>>
    \o (IF o.status = "configure_failed" THEN <<>>
        ELSE <<[fn |-> "list_models"]>>)

\* an element put on the page
Element(kind, text) == [kind |-> kind, text |-> text]

\* lines 27-31
LoadKey ==
    /\ pc = "load_key"
    /\ IF "GOOGLE_API_KEY" \in DOMAIN secrets
       THEN /\ api_key' = secrets["GOOGLE_API_KEY"]
            /\ shown' = Append(shown, Element("success", "API Key loaded from Secrets"))
       ELSE /\ api_key' = key_input
            /\ shown' = shown
    /\ pc' = "models"
    /\ UNCHANGED <<secrets, widgets, generate_btn, model_options,
                   selected_model, listing, outcome, calls>>

\* ResolveModels without the test of the credential in line 43
ResolveModelsAnyKey ==
    /\ pc = "models"
    /\ \E o \in ListOutcomes :
          /\ listing' = o
          /\ calls' = calls \o ListingCalls(api_key, o)
          /\ model_options' =
                (IF o.status = "ok"
                 THEN safe_models \o OtherModels(AllModels(o.yielded))
                 ELSE safe_models)
    /\ pc' = "select"
    /\ UNCHANGED <<secrets, widgets, generate_btn, api_key, selected_model,
                   outcome, shown>>

\* lines 38-56
ResolveModels ==
    /\ pc = "models"
    /\ \/ /\ ~Truthy(api_key)
          /\ listing' = NotListed
          /\ calls' = calls
       \/ /\ Truthy(api_key)
          /\ \E o \in ListOutcomes :
                /\ listing' = o
                /\ calls' = calls \o ListingCalls(api_key, o)
    /\ model_options' = ModelOptions(api_key, listing')
    /\ pc' = "select"
    /\ UNCHANGED <<secrets, widgets, generate_btn, api_key, selected_model,
                   outcome, shown>>

\* line 59: st.selectbox("Choose Model", model_options, index=0) returns the
\* option the user has picked, the first one unless the user picked another
SelectModel ==
    /\ pc = "select"
    /\ \E m \in Range(model_options) : selected_model' = m
    /\ listing' = NotListed
    /\ pc' = "main"
    /\ UNCHANGED <<secrets, widgets, generate_btn, api_key, model_options,
                   outcome, shown, calls>>

-----------------------------------------------------------------------------
(* Main column: the instruction template and the submit handler (73-157) *)

\* what the user may type, and the positions of the sliders
TaskTexts == {"", "summarize articles"}
AudienceTexts == {"", "executives"}
FormatTexts == {"", "bullet points"}
CreativityValues == {0, 70, 100}
DetailLevels == {"Concise", "Standard", "Extensive"}

\* line 65: the slider's initial value 0.7, in hundredths
DefaultCreativity == 70

\* lines 74-79: the template up to the user's request
TemplateHead ==
    "\n"
    \o "    You are an Expert Prompt Engineer and LLM Architect. \n"
    \o "    Your goal is to take a vague user request and transform it into a highly structured, professional \"Masterprompt\" optimized for Large Language Models.\n"
    \o "    \n"
    \o "    **USER REQUEST:**\n"
    \o "    \""

\* lines 79-91: from the user's request to the detail level
TemplateMiddle ==
    "\"\n"
    \o "    \n"
    \o "    **REQUIRED OUTPUT STRUCTURE:**\n"
    \o "    You must generate a structured prompt that contains the following sections:\n"
    \o "    \n"
    \o "    1. **Role:** Define a specific expert persona.\n"
    \o "    2. **Context:** Describe the situation and background.\n"
    \o "    3. **Task:** A clear, step-by-step definition of what needs to be done.\n"
    \o "    4. **Constraints:** Specific rules (e.g., tone, formatting).\n"
    \o "    5. **Output Format:** Exactly how the result should look.\n"
    \o "    \n"
    \o "    **CONFIGURATION:**\n"
    \o "    - Detail Level: "

\* lines 91-95: after the detail level
TemplateTail ==
    "\n"
    \o "    - Tone: Professional, Direct, and Actionable.\n"
    \o "    \n"
    \o "    Output ONLY the optimized prompt within a code block.\n"
    \o "    "

\* get_architect_prompt with the detail level left at the slider's default
PromptIgnoringDetail(user_task, level) ==
    TemplateHead \o user_task \o TemplateMiddle \o "Standard" \o TemplateTail

\* lines 73-95
get_architect_prompt(user_task, level) ==
    TemplateHead \o user_task \o TemplateMiddle \o level \o TemplateTail

\* lines 133-135
FullInput(task, aud, fmt) ==
    task
    \o (IF Truthy(aud) THEN "\n(Target Audience: " \o aud \o ")" ELSE "")
    \o (IF Truthy(fmt) THEN "\n(Format Preference: " \o fmt \o ")" ELSE "")

\* Validate with the task tested before the credential
ValidateTaskFirst(key, task) ==
    IF ~Truthy(task) THEN "no_task"
    ELSE IF ~Truthy(key) THEN "no_key"
    ELSE "ok"

\* Validate without the test of the credential
ValidateTaskOnly(key, task) ==
    IF ~Truthy(task) THEN "no_task" ELSE "ok"

\* lines 120-125: which branch a submission takes
Validate(key, task) ==
    IF ~Truthy(key) THEN "no_key"
    ELSE IF ~Truthy(task) THEN "no_task"
    ELSE "ok"

\* IsRateLimit by equality instead of containment
IsRateLimitExact(e) == e = "429"

\* line 150
IsRateLimit(e) == Contains(e, "429")

\* the texts of the messages
MissingKeyMsg == "Please enter your Gemini API Key in the sidebar or secrets.toml."
EmptyTaskMsg == "Please describe your task first."
SuccessMsg == "Masterprompt Generated!"
CopyCaption == "Copy the code above and paste it into your LLM chat."
QuotaMsg == "**Quota Exceeded (429 Error)**"
QuotaAdvice == "You have hit the free rate limit for this model. Please wait 60 seconds and try again, or switch to 'gemini-1.5-flash' in the sidebar."
GenericPrefix == "An error occurred: "
GenericAdvice == "Try selecting a different model (like gemini-1.5-flash) in the sidebar."
PlaceholderMsg == "The generated Masterprompt will appear here ready to copy."

\* lines 148-155: the elements shown for an exception with text e
ErrorElements(e) ==
    IF IsRateLimit(e)
    THEN <<Element("error", QuotaMsg), Element("warning", QuotaAdvice)>>
    ELSE <<Element("error", GenericPrefix \o e), Element("info", GenericAdvice)>>

\* str(e) of the exceptions the SDK may raise, and the texts it may return
ErrorTexts == {"429 Resource has been exhausted", "404 model not found"}
ResponseTexts == {"**Role:** You are an analyst.\n"}

\* what lines 126-146 may meet: an exception raised by configure (128), by
\* the GenerativeModel constructor (131), by generate_content (139) or by
\* reading response.text (145), or a response whose text is read
NoOutcome == [stage |-> "none", error |-> "", text |-> ""]
Branch(stage) == [stage |-> stage, error |-> "", text |-> ""]
GenOutcomes ==
    {[stage |-> st, error |-> e, text |-> ""] :
        st \in {"configure", "model", "generate", "text"}, e \in ErrorTexts}
    \cup {[stage |-> "ok", error |-> "", text |-> r] : r \in ResponseTexts}

\* lines 139-142: the generation call
GenerateCall(model, instruction, temp) ==
    [fn |-> "generate_content", model |-> model, instruction |-> instruction,
     generation_config |-> [temperature |-> temp]]

\* HandlerCalls with a failed generation call issued a second time
HandlerCallsRetry(g) ==
    LET call == GenerateCall(selected_model,
                    get_architect_prompt(FullInput(user_input, audience, format_pref),
                                         detail_level),
                    creativity)
    IN  <<[fn |-> "configure", api_key |-> api_key]>>
        \o (IF g.stage \in {"text", "ok"} THEN <<call>>
            ELSE IF g.stage = "generate" THEN <<call, call>>
            ELSE <<>>)

\* lines 128-142: the SDK calls of a submission that meets g
HandlerCalls(g) ==
    <<[fn |-> "configure", api_key |-> api_key]>>
    \o (IF g.stage \in {"generate", "text", "ok"}
        THEN <<GenerateCall(selected_model,
                   get_architect_prompt(FullInput(user_input, audience, format_pref),
                                        detail_level),
                   creativity)>>
        ELSE <<>>)

\* lines 144-155: the elements of a submission that meets g.  The success
\* message of line 144 precedes the read of response.text in line 145.
HandlerElements(g) ==
    IF g.stage = "ok"
    THEN <<Element("success", SuccessMsg), Element("code", g.text),
           Element("caption", CopyCaption)>>
    ELSE (IF g.stage = "text" THEN <<Element("success", SuccessMsg)>> ELSE <<>>)
         \o ErrorElements(g.error)

\* lines 120-157
Forge ==
    /\ pc = "main"
    /\ \/ /\ ~generate_btn
          /\ shown' = Append(shown, Element("info", PlaceholderMsg))
          /\ outcome' = Branch("not_submitted")
          /\ calls' = calls
       \/ /\ generate_btn
          /\ Validate(api_key, user_input) = "no_key"
          /\ shown' = Append(shown, Element("error", MissingKeyMsg))
          /\ outcome' = Branch("no_key")
          /\ calls' = calls
       \/ /\ generate_btn
          /\ Validate(api_key, user_input) = "no_task"
          /\ shown' = Append(shown, Element("warning", EmptyTaskMsg))
          /\ outcome' = Branch("no_task")
          /\ calls' = calls
       \/ /\ generate_btn
          /\ Validate(api_key, user_input) = "ok"
          /\ \E g \in GenOutcomes :
                /\ outcome' = g
                /\ calls' = calls \o HandlerCalls(g)
                /\ shown' = shown \o HandlerElements(g)
    /\ pc' = "idle"
    /\ UNCHANGED <<secrets, widgets, generate_btn, api_key, model_options,
                   selected_model, listing>>

-----------------------------------------------------------------------------
(* Widget interactions: each starts a new run of the script *)

Rerun(clicked) ==
    /\ pc = "idle"
    /\ pc' = "load_key"
    /\ generate_btn' = clicked
    /\ api_key' = ""
    /\ model_options' = <<>>
    /\ selected_model' = ""
    /\ listing' = NotListed
    /\ outcome' = NoOutcome
    /\ shown' = <<>>
    /\ calls' = <<>>
    /\ UNCHANGED secrets

\* line 31: the key field exists only when the secrets hold no key
EditKey ==
    /\ "GOOGLE_API_KEY" \notin DOMAIN secrets
    /\ \E k \in KeyInputs \ {key_input} : key_input' = k
    /\ Rerun(FALSE)
    /\ UNCHANGED <<user_input, audience, format_pref, creativity, detail_level>>

\* line 105
EditTask ==
    /\ \E t \in TaskTexts \ {user_input} : user_input' = t
    /\ Rerun(FALSE)
    /\ UNCHANGED <<key_input, audience, format_pref, creativity, detail_level>>

\* line 112
EditAudience ==
    /\ \E a \in AudienceTexts \ {audience} : audience' = a
    /\ Rerun(FALSE)
    /\ UNCHANGED <<key_input, user_input, format_pref, creativity, detail_level>>

\* line 113
EditFormat ==
    /\ \E f \in FormatTexts \ {format_pref} : format_pref' = f
    /\ Rerun(FALSE)
    /\ UNCHANGED <<key_input, user_input, audience, creativity, detail_level>>

\* line 65
MoveCreativity ==
    /\ \E c \in CreativityValues \ {creativity} : creativity' = c
    /\ Rerun(FALSE)
    /\ UNCHANGED <<key_input, user_input, audience, format_pref, detail_level>>

\* line 66
MoveDetail ==
    /\ \E d \in DetailLevels \ {detail_level} : detail_level' = d
    /\ Rerun(FALSE)
    /\ UNCHANGED <<key_input, user_input, audience, format_pref, creativity>>

\* line 115
ClickForge ==
    /\ Rerun(TRUE)
    /\ UNCHANGED widgets

-----------------------------------------------------------------------------
(* The page *)

Init ==
    /\ secrets \in SecretStores
    /\ key_input = ""
    /\ user_input = ""
    /\ audience = ""
    /\ format_pref = ""
    /\ creativity = DefaultCreativity
    /\ detail_level = "Standard"
    /\ generate_btn = FALSE
    /\ api_key = ""
    /\ model_options = <<>>
    /\ selected_model = ""
    /\ listing = NotListed
    /\ outcome = NoOutcome
    /\ shown = <<>>
    /\ calls = <<>>
    /\ pc = "load_key"

Next ==
    \/ LoadKey
    \/ ResolveModels
    \/ SelectModel
    \/ Forge
    \/ EditKey
    \/ EditTask
    \/ EditAudience
    \/ EditFormat
    \/ MoveCreativity
    \/ MoveDetail
    \/ ClickForge

Spec == Init /\ [][Next]_vars

-----------------------------------------------------------------------------
(* Vocabulary of the properties *)

\* the script has passed the model catalog of lines 38-56
Resolved == pc \in {"select", "main", "idle"}

\* the option list is complete and the selector of line 59 is next
AtSelector == pc = "select"

\* the run has ended
Rendered == pc = "idle"

\* the fallback list of the specification, written out
FallbackList == <<"gemini-1.5-flash", "gemini-1.5-pro", "gemini-2.0-flash-exp">>

IsShown(kind, text) == \E i \in DOMAIN shown : shown[i] = Element(kind, text)

CallsTo(fn) == {i \in DOMAIN calls : calls[i].fn = fn}

\* a call to one of the two endpoints of the provider
NoExternalCall == CallsTo("list_models") \cup CallsTo("generate_content") = {}

StartsWith(s, prefix) ==
    Len(s) >= Len(prefix) /\ SubSeq(s, 1, Len(prefix)) = prefix

\* a name with a leading "models/" taken off
StripPrefix(name) ==
    IF StartsWith(name, "models/") THEN SubSeq(name, 8, Len(name)) ELSE name

\* the fetched entries that support generateContent and are not safe models,
\* by their names without the prefix, in the order fetched
RECURSIVE FetchedOthers(_)
FetchedOthers(entries) ==
    IF entries = <<>> THEN <<>>
    ELSE LET m == Head(entries)
             n == StripPrefix(m.name)
         IN  (IF /\ "generateContent" \in m.supported_generation_methods
                 /\ n \notin Range(FallbackList)
              THEN <<n>> ELSE <<>>)
             \o FetchedOthers(Tail(entries))

\* the words occur in s one after the other
RECURSIVE InOrder(_, _)
InOrder(s, words) ==
    \/ words = <<>>
    \/ LET w == Head(words)
       IN  \E i \in 1..(Len(s) - Len(w) + 1) :
              /\ SubSeq(s, i, i + Len(w) - 1) = w
              /\ InOrder(SubSeq(s, i + Len(w), Len(s)), Tail(words))

MissingKeyShown == IsShown("error", MissingKeyMsg)
EmptyTaskShown == IsShown("warning", EmptyTaskMsg)
SuccessShown == IsShown("success", SuccessMsg)
RateLimitShown == IsShown("error", QuotaMsg)
GenericShown ==
    \E i \in DOMAIN shown :
        shown[i].kind = "error" /\ StartsWith(shown[i].text, "An error occurred")

\* the handler met an exception
Failed == outcome.stage \in {"configure", "model", "generate", "text"}

-----------------------------------------------------------------------------
(* C1 *)

\* C1: with a credential and a catalog fetch that completes, the option list
\* is the safe list followed by the fetched models that support
\* generateContent and whose name without the "models/" prefix is not safe,
\* in the order fetched.
C1_SafeFirstThenFetched ==
    (AtSelector /\ Truthy(api_key) /\ listing.status = "ok")
        => model_options = FallbackList \o FetchedOthers(listing.yielded)

-----------------------------------------------------------------------------
(* C2 *)

\* C2: with an absent or empty credential the option list is the fallback
\* list in its fixed order, and the listing endpoint is not called.
C2_NoCredentialFallback ==
    /\ (Resolved /\ ~Truthy(api_key)) => model_options = FallbackList
    /\ (pc # "load_key" /\ ~Truthy(api_key)) => CallsTo("list_models") = {}

C2_Witness ==
    /\ pc = "select"
    /\ api_key = ""
    /\ listing = NotListed
    /\ model_options = FallbackList

-----------------------------------------------------------------------------
(* C3 *)

\* C3: with a credential, when configure or the listing fails, also part-way
\* through the listing, the option list is the safe list, no error or
\* warning is shown for it, and the run goes on to the model selector.
C3_ListingFailureSwallowed ==
    LET failed == Truthy(api_key) /\ listing.status \in {"configure_failed", "raised"}
    IN  (AtSelector /\ failed) =>
            /\ model_options = FallbackList
            /\ \A i \in DOMAIN shown : shown[i].kind \notin {"error", "warning"}
            /\ ENABLED SelectModel

C3_Witness ==
    /\ AtSelector
    /\ listing.status = "raised"
    /\ Len(listing.yielded) > 0
    /\ model_options = FallbackList

-----------------------------------------------------------------------------
(* C4 *)

\* C4 as stated: on a submit with empty task text no external call occurs and
\* the warning is shown, whatever the credential.
C4_EmptyTaskAnyCredential ==
    (Rendered /\ generate_btn /\ user_input = "")
        => (NoExternalCall /\ EmptyTaskShown)

\* C4, amended: on a submit with empty task text no generation call occurs;
\* with a credential the empty-task warning is shown and nothing else is
\* reported; without one the missing-credential error is shown instead of
\* the warning and no external call occurs at all.
C4_EmptyTaskNoGeneration ==
    (Rendered /\ generate_btn /\ user_input = "") =>
        /\ CallsTo("generate_content") = {}
        /\ Truthy(api_key) => (EmptyTaskShown /\ ~MissingKeyShown)
        /\ ~Truthy(api_key) => (MissingKeyShown /\ ~EmptyTaskShown /\ NoExternalCall)

C4_Witness ==
    /\ Rendered
    /\ generate_btn
    /\ user_input = ""
    /\ Truthy(api_key)
    /\ EmptyTaskShown
    /\ CallsTo("list_models") # {}

-----------------------------------------------------------------------------
(* C5 *)

\* C5: on a submit with task text and an absent or empty credential neither
\* the listing nor the generation endpoint is called and the
\* missing-credential error is shown.
C5_NoCredentialNoCall ==
    (Rendered /\ generate_btn /\ user_input # "" /\ api_key = "")
        => (NoExternalCall /\ MissingKeyShown)

C5_Witness ==
    /\ Rendered
    /\ generate_btn
    /\ user_input = "summarize articles"
    /\ api_key = ""
    /\ MissingKeyShown

-----------------------------------------------------------------------------
(* C6 *)

\* C6: a failure whose message contains "429" shows the rate-limit message
\* and not the generic one; any other failure shows the generic message and
\* not the rate-limit one.
C6_RateLimitMessage ==
    (Rendered /\ Failed) =>
        IF Contains(outcome.error, "429")
        THEN RateLimitShown /\ ~GenericShown
        ELSE GenericShown /\ ~RateLimitShown

C6_Witness ==
    /\ Rendered
    /\ outcome.stage = "generate"
    /\ Contains(outcome.error, "429")
    /\ CallsTo("generate_content") # {}
    /\ RateLimitShown

-----------------------------------------------------------------------------
(* C7 *)

SectionHeaders ==
    <<"**Role:**", "**Context:**", "**Task:**", "**Constraints:**",
      "**Output Format:**">>

\* C7: the instruction sent to the generation endpoint holds the task text,
\* the audience and the format, the five section headers in their order and
\* the selected detail level; an empty audience or format leaves its hint
\* line out, and the task text is otherwise unchanged.
C7_InstructionText ==
    \A i \in CallsTo("generate_content") :
        LET p == calls[i].instruction
        IN  /\ user_input # ""
            /\ Contains(p, "\"" \o user_input)
            /\ InOrder(p, SectionHeaders)
            /\ Contains(p, "Detail Level: " \o detail_level \o "\n")
            /\ IF audience # ""
               THEN Contains(p, "(Target Audience: " \o audience \o ")")
               ELSE ~Contains(p, "Target Audience")
            /\ IF format_pref # ""
               THEN Contains(p, "(Format Preference: " \o format_pref \o ")")
               ELSE ~Contains(p, "Format Preference")
            /\ (audience = "" /\ format_pref = "")
                  => Contains(p, "\"" \o user_input \o "\"")

C7_Witness ==
    /\ Rendered
    /\ CallsTo("generate_content") # {}
    /\ user_input = "summarize articles"
    /\ audience = "executives"
    /\ format_pref = "bullet points"
    /\ detail_level = "Extensive"

-----------------------------------------------------------------------------
(* C8 *)

\* C8: no string appears more than once in the option list, whatever the
\* catalog fetch returns.
C8_NoDuplicateOptions ==
    \A i, j \in DOMAIN model_options :
        i # j => model_options[i] # model_options[j]

-----------------------------------------------------------------------------
(* C9 *)

GenerationCalls == CallsTo("generate_content")

\* every generation call carries the selected model and the slider's value
CallsAsConfigured ==
    \A i \in GenerationCalls :
        /\ calls[i].model = selected_model
        /\ calls[i].generation_config.temperature = creativity

ValidSubmit == Rendered /\ generate_btn /\ api_key # "" /\ user_input # ""

\* C9 as stated: a submit with a credential and task text issues exactly one
\* generation call, with the selected model and the slider temperature; a
\* success displays the response text unchanged; no submit, no call.
C9_ExactlyOneCall ==
    /\ ValidSubmit =>
          /\ Cardinality(GenerationCalls) = 1
          /\ CallsAsConfigured
          /\ outcome.stage = "ok" => IsShown("code", outcome.text)
    /\ ~generate_btn => GenerationCalls = {}

\* C9, amended: such a submit issues at most one generation call: none when
\* configure or the model constructor raises first, exactly one otherwise,
\* also when that call or the read of its text fails; the call carries the
\* selected model and the slider temperature; when the call returns and its
\* text is read, the text is displayed unchanged; no submit, no call.
C9_AtMostOneCall ==
    /\ ValidSubmit =>
          /\ Cardinality(GenerationCalls) =
                (IF outcome.stage \in {"configure", "model"} THEN 0 ELSE 1)
          /\ CallsAsConfigured
          /\ outcome.stage = "ok" => IsShown("code", outcome.text)
    /\ ~generate_btn => GenerationCalls = {}
    /\ ~ValidSubmit => GenerationCalls = {}

C9_Witness ==
    /\ ValidSubmit
    /\ outcome.stage = "ok"
    /\ Cardinality(GenerationCalls) = 1
    /\ selected_model = "gemini-exp-1206"
    /\ creativity = 100
    /\ IsShown("code", outcome.text)

-----------------------------------------------------------------------------
(* C10 *)

\* C10: every submit ends in exactly one of missing-credential error,
\* empty-task warning, success, rate-limit error and generic error; success
\* and an error are never shown together.
C10_OneOutcome ==
    (Rendered /\ generate_btn) =>
        /\ Cardinality({k \in 1..5 :
                           <<MissingKeyShown, EmptyTaskShown, SuccessShown,
                             RateLimitShown, GenericShown>>[k]}) = 1
        /\ ~(SuccessShown /\ \E i \in DOMAIN shown : shown[i].kind = "error")

-----------------------------------------------------------------------------
(* Where the refuted statements hold *)

\* The merge is as C1 states for every listing whose names hold "models/"
\* as a prefix only.
MergeHoldsForPrefixedNames ==
    (\A i \in DOMAIN listing.yielded :
        ~Contains(StripPrefix(listing.yielded[i].name), "models/"))
        => C1_SafeFirstThenFetched

\* The option list has no duplicates when the listing repeats no name.
NoDuplicatesForDistinctNames ==
    (AtSelector /\ C8_NoDuplicateOptions = FALSE)
        => \E i, j \in DOMAIN listing.yielded :
              /\ i # j
              /\ Replace(listing.yielded[i].name, "models/", "")
                    = Replace(listing.yielded[j].name, "models/", "")

\* A submission reports one outcome unless the read of response.text fails.
OneOutcomeUnlessTextFails == C10_OneOutcome \/ outcome.stage = "text"

\* A valid submission issues one generation call unless an exception precedes it.
OneCallUnlessRaisedBefore ==
    C9_ExactlyOneCall \/ outcome.stage \in {"configure", "model"}

=============================================================================
